---- MODULE Spec2Model ----
(***************************************************************************)
(* The incremental retrieval engine of PT-NEWS_EXTRACTOR: the paging loops *)
(* of PublicoTopicSearch.consume_api, PublicoKeywordsSearch.consume_api    *)
(* and CMTopicSearch.search, PublicoURLSearch.add_news, and the            *)
(* validate_urls decorator.                                                *)
(*                                                                         *)
(* One behaviour is one run of one search variant.  The remote source is   *)
(* the environment: `source' scripts the pages it returns by position, and *)
(* a position past the script returns any page, whose items are drawn when *)
(* the loop reads them.                                                    *)
(***************************************************************************)
EXTENDS Integers, Sequences, FiniteSets, TLC

VARIABLES
    variant,             \* which class this run drives
    start_date,          \* self.start_date
    end_date,            \* self.end_date
    source,              \* the scripted pages of the remote source, by position
    found_news,          \* self._found_news
    page_number,         \* PublicoAPISearch.page_number
    index,               \* CMTopicSearch.search: local index (contentStartIndex)
    stop_entire_search,  \* PublicoTopicSearch.consume_api: local flag
    full_stop,           \* CMTopicSearch.search: local flag
    pc,                  \* position in the running method
    r,                   \* the response of the last listing fetch
    idx,                 \* items of the current page the for loop has consumed
    fetched,             \* history: the cursor of every listing fetch, in order
    detail_fetched,      \* history: the URLs a detail page was requested for
    last,                \* history: the last item the loop body ran for
    seen_older,          \* history: consume_api read an item dated before start_date
    batch,               \* validate_urls: the "url" list of the request
    result,              \* validate_urls: how the decorated call ended
    f_calls,             \* validate_urls: times the wrapped operation ran
    heap,                \* two sessions: the list objects allocated so far
    instances,           \* two sessions: the attributes and locals of each
    actor,               \* history: the instance that took the last step
    first_run            \* history: how the first call of consume_api ended

vars == <<variant, start_date, end_date, source, found_news, page_number,
          index, stop_entire_search, full_stop, pc, r, idx, fetched,
          detail_fetched, last, seen_older, batch, result, f_calls, heap,
          instances, actor, first_run>>

----------------------------------------------------------------------------
(* Bounds of the model *)

\* listing fetches of one run
MaxPages == 2
\* items of one listing page
MaxItems == 2

(* Sample values *)

Dates == 1..5
StartDates == {2}
EndDates == {3, 4}

\* URLs as sequences of text pieces; "/" and "?ref" are pieces of their own
PublicoA == <<"https:", "/", "/", "www.publico.pt", "/", "a">>
PublicoB == <<"https:", "/", "/", "www.publico.pt", "/", "b">>
\* the host of test_invalid_url_search_job
PuboA == <<"https:", "/", "/", "www.pubo.pt", "/", "a">>

\* article URLs of the Publico API items
PublicoUrls == {PublicoA, PublicoB}

\* one element of the JSON array the Publico API returns
PublicoItems == [url : PublicoUrls, data : Dates, wellformed : BOOLEAN]

Origin == <<"https:", "/", "/", "www.cmjornal.pt">>
RelA == <<"/", "pais", "/", "a">>
RelB == <<"/", "pais", "/", "b">>

\* the data-name attribute of a listed article
\* listed URLs of plain articles: relative, absolute, with a tracking suffix
ArticleUrls == {RelA, Origin \o RelA, RelA \o <<"?ref", "=Mais Sobre">>, RelB}

\* listed URLs of interactive, multimedia and quiz content
MarkedUrls ==
    { <<"/", "multimedia", "/", "m">>,
      Origin \o <<"/", "interativa", "/", "i">>,
      <<"/", "pais", "/", "perguntas", "?ref", "=Mais Sobre">> }

\* the data-name attribute of a listed article
CMRawUrls ==
    ArticleUrls \cup MarkedUrls \cup {RelB \o <<"?ref", "=", "perguntas">>}

\* an <article> whose data-name attribute is the empty text
MalformedArticle == [url |-> << >>, date |-> 3, status |-> 200]

\* one <article> of a listing page, and the status of its detail page
CMItems ==
    [url : CMRawUrls, date : Dates, status : {200, 404}]
        \cup {MalformedArticle}

NoResponse == [text |-> "none", n |-> 0]
NoItem == [decision |-> "none", url |-> << >>, date |-> 0]

----------------------------------------------------------------------------
(* The remote source *)

Pinned(pos) == pos \in 1..Len(source)

\* requests.get(self.api_url).text: "[]", or a JSON array of n elements
\* written any other way
PublicoResponses(pos) ==
    IF Pinned(pos)
    THEN {[text |-> source[pos].text, n |-> Len(source[pos].items)]}
    ELSE {[text |-> "[]", n |-> 0]} \cup [text : {"array"}, n : 0..MaxItems]

\* the i-th element of json.loads(r)
PublicoItemAt(pos, i) ==
    IF Pinned(pos) THEN {source[pos].items[i]} ELSE PublicoItems

\* requests.get(...loadmore...).text: "", "\r\n", or markup with n articles
CMResponses(pos) ==
    IF Pinned(pos)
    THEN {[text |-> source[pos].text, n |-> Len(source[pos].items)]}
    ELSE [text : {"", "\r\n"}, n : {0}] \cup [text : {"html"}, n : 0..MaxItems]

\* the i-th element of tree.xpath("//article")
CMItemAt(pos, i) ==
    IF Pinned(pos) THEN {source[pos].items[i]} ELSE CMItems

----------------------------------------------------------------------------
(* PublicoNews *)

\* PublicoNews.parse_date: the date the text of the "data" field denotes
ParseDate(item) == item.data

\* PublicoNews.deserialize_news: a PublicoNews, or a value that is not one
DeserializeNews(data) ==
    IF data.wellformed
    THEN [isnews |-> TRUE, url |-> data.url, date |-> ParseDate(data)]
    ELSE [isnews |-> FALSE]

\* PublicoNews.__eq__: the URL is the identity of a record
NewsEq(a, b) == a.url = b.url

\* PublicoNews.validate_url: the URL has the shape of a Publico article URL
ValidateUrl(url) == Len(url) >= 4 /\ url[4] = "www.publico.pt"

\* news_object in self.found_news
InFoundNews(news, list) == \E i \in 1..Len(list) : NewsEq(list[i], news)

\* PublicoTopicSearch.add_news / PublicoKeywordsSearch.add_news
AddNewsNoDedup(list, data) ==
    LET news_object == DeserializeNews(data)
    IN  IF news_object.isnews
        THEN Append(list, [url |-> news_object.url, date |-> news_object.date])
        ELSE list

AddNews(list, data) ==
    LET news_object == DeserializeNews(data)
    IN  IF news_object.isnews /\ ~InFoundNews(news_object, list)
        THEN Append(list, [url |-> news_object.url, date |-> news_object.date])
        ELSE list

----------------------------------------------------------------------------
(* PublicoTopicSearch.consume_api *)

\* the if / elif / else of the for loop's body
TopicDecisionNoStop(item) ==
    IF ParseDate(item) < start_date THEN "skip"
    ELSE IF ParseDate(item) > end_date THEN "skip"
    ELSE "add"

TopicDecisionNoUpper(item) ==
    IF ParseDate(item) < start_date THEN "stop"
    ELSE IF ParseDate(item) > end_date + 1 THEN "skip"
    ELSE "add"

TopicDecisionStrictStart(item) ==
    IF ParseDate(item) <= start_date THEN "stop"
    ELSE IF ParseDate(item) > end_date THEN "skip"
    ELSE "add"

TopicDecision(item) ==
    IF ParseDate(item) < start_date THEN "stop"
    ELSE IF ParseDate(item) > end_date THEN "skip"
    ELSE "add"

\* while (r := requests.get(self.api_url).text) != "[]"
TopicFetch ==
    /\ variant = "topic"
    /\ pc = "fetch"
    /\ Len(fetched) < MaxPages \/ Pinned(page_number)
    /\ \E resp \in PublicoResponses(page_number) :
        /\ r' = resp
        /\ pc' = IF resp.text = "[]" THEN "done" ELSE "items"
    /\ fetched' = Append(fetched, page_number)
    /\ idx' = 0
    /\ UNCHANGED <<heap, instances, actor, first_run>>
    /\ UNCHANGED <<variant, start_date, end_date, source, found_news,
                   page_number, index, stop_entire_search, full_stop,
                   detail_fetched, last, seen_older, batch, result, f_calls>>

\* one iteration of: for item in data
TopicItemNoBreak ==
    /\ variant = "topic"
    /\ pc = "items"
    /\ idx < r.n
    /\ \E item \in PublicoItemAt(page_number, idx + 1) :
        LET d == TopicDecision(item)
        IN  /\ idx' = idx + 1
            /\ last' = [decision |-> d, url |-> item.url, date |-> ParseDate(item)]
            /\ seen_older' = (seen_older \/ ParseDate(item) < start_date)
            /\ stop_entire_search' = (stop_entire_search \/ d = "stop")
            /\ pc' = "items"
            /\ found_news' = IF d = "add" THEN AddNews(found_news, item)
                             ELSE found_news
    /\ UNCHANGED <<heap, instances, actor, first_run>>
    /\ UNCHANGED <<variant, start_date, end_date, source, page_number, index,
                   full_stop, r, fetched, detail_fetched, batch, result,
                   f_calls>>

TopicItem ==
    /\ variant = "topic"
    /\ pc = "items"
    /\ idx < r.n
    /\ \E item \in PublicoItemAt(page_number, idx + 1) :
        LET d == TopicDecision(item)
        IN  /\ idx' = idx + 1
            /\ last' = [decision |-> d, url |-> item.url, date |-> ParseDate(item)]
            /\ seen_older' = (seen_older \/ ParseDate(item) < start_date)
            /\ stop_entire_search' = (stop_entire_search \/ d = "stop")
            /\ pc' = IF d = "stop" THEN "break" ELSE "items"
            /\ found_news' = IF d = "add" THEN AddNews(found_news, item)
                             ELSE found_news
    /\ UNCHANGED <<heap, instances, actor, first_run>>
    /\ UNCHANGED <<variant, start_date, end_date, source, page_number, index,
                   full_stop, r, fetched, detail_fetched, batch, result,
                   f_calls>>

\* after the for loop: if stop_entire_search: break, else increment the page
TopicAfterItemsMidPage ==
    /\ variant = "topic"
    /\ pc = "break" \/ pc = "items"
    /\ IF stop_entire_search
       THEN pc' = "done" /\ page_number' = page_number
       ELSE pc' = "fetch" /\ page_number' = page_number + 1
    /\ UNCHANGED <<heap, instances, actor, first_run>>
    /\ UNCHANGED <<variant, start_date, end_date, source, found_news, index,
                   stop_entire_search, full_stop, r, idx, fetched,
                   detail_fetched, last, seen_older, batch, result, f_calls>>

TopicAfterItems ==
    /\ variant = "topic"
    /\ pc = "break" \/ (pc = "items" /\ idx = r.n)
    /\ IF stop_entire_search
       THEN pc' = "done" /\ page_number' = page_number
       ELSE pc' = "fetch" /\ page_number' = page_number + 1
    /\ UNCHANGED <<heap, instances, actor, first_run>>
    /\ UNCHANGED <<variant, start_date, end_date, source, found_news, index,
                   stop_entire_search, full_stop, r, idx, fetched,
                   detail_fetched, last, seen_older, batch, result, f_calls>>

----------------------------------------------------------------------------
(* PublicoKeywordsSearch.consume_api *)

\* while (r := requests.get(self.api_url).text) != "[]"
KeywordsFetch ==
    /\ variant = "keywords"
    /\ pc = "fetch"
    /\ Len(fetched) < MaxPages \/ Pinned(page_number)
    /\ \E resp \in PublicoResponses(page_number) :
        /\ r' = resp
        /\ pc' = IF resp.text = "[]" THEN "done" ELSE "items"
    /\ fetched' = Append(fetched, page_number)
    /\ idx' = 0
    /\ UNCHANGED <<heap, instances, actor, first_run>>
    /\ UNCHANGED <<variant, start_date, end_date, source, found_news,
                   page_number, index, stop_entire_search, full_stop,
                   detail_fetched, last, seen_older, batch, result, f_calls>>

\* one iteration of: for item in data: self.add_news(item)
KeywordsItem ==
    /\ variant = "keywords"
    /\ pc = "items"
    /\ idx < r.n
    /\ \E item \in PublicoItemAt(page_number, idx + 1) :
        /\ idx' = idx + 1
        /\ last' = [decision |-> "add", url |-> item.url,
                    date |-> ParseDate(item)]
        /\ found_news' = AddNews(found_news, item)
    /\ UNCHANGED <<heap, instances, actor, first_run>>
    /\ UNCHANGED <<variant, start_date, end_date, source, page_number, index,
                   stop_entire_search, full_stop, pc, r, fetched,
                   detail_fetched, seen_older, batch, result, f_calls>>

\* after the for loop: increment the page
KeywordsAfterItemsSamePage ==
    /\ variant = "keywords"
    /\ pc = "items"
    /\ idx = r.n
    /\ pc' = "items"
    /\ idx' = 0
    /\ page_number' = page_number
    /\ UNCHANGED <<heap, instances, actor, first_run>>
    /\ UNCHANGED <<variant, start_date, end_date, source, found_news, index,
                   stop_entire_search, full_stop, r, fetched,
                   detail_fetched, last, seen_older, batch, result, f_calls>>

KeywordsAfterItems ==
    /\ variant = "keywords"
    /\ pc = "items"
    /\ idx = r.n
    /\ pc' = "fetch"
    /\ page_number' = page_number + 1
    /\ UNCHANGED <<heap, instances, actor, first_run>>
    /\ UNCHANGED <<variant, start_date, end_date, source, found_news, index,
                   stop_entire_search, full_stop, r, idx, fetched,
                   detail_fetched, last, seen_older, batch, result, f_calls>>

----------------------------------------------------------------------------
(* CMTopicSearch.search *)

\* index += 6
CMStep == 6

\* the position of the page that contentStartIndex={index} asks for
CMPosition(i) == (i \div CMStep) + 1

\* url = "https://www.cmjornal.pt" + url if url[0] == "/" else url
WithOrigin(url) == IF url[1] = "/" THEN Origin \o url ELSE url

\* url.split("?ref")[0]
BeforeRefLast(url) ==
    LET hits == {i \in 1..Len(url) : url[i] = "?ref"}
    IN  IF hits = {} THEN url
        ELSE SubSeq(url, 1, (CHOOSE i \in hits : \A j \in hits : i >= j) - 1)

BeforeRef(url) ==
    LET hits == {i \in 1..Len(url) : url[i] = "?ref"}
    IN  IF hits = {} THEN url
        ELSE SubSeq(url, 1, (CHOOSE i \in hits : \A j \in hits : i <= j) - 1)

NormalizeUrl(url) == BeforeRef(WithOrigin(url))

Markers == {"interativa", "multimedia", "perguntas"}

\* any(x in url for x in ["interativa", "multimedia", "perguntas"])
DenylistedTwoMarkers(url) ==
    \E i \in 1..Len(url) : url[i] \in {"interativa", "perguntas"}

Denylisted(url) == \E i \in 1..Len(url) : url[i] \in Markers

\* self.start_date < news_date < self.end_date
InDateWindowClosed(news_date) ==
    start_date <= news_date /\ news_date <= end_date

InDateWindow(news_date) == start_date < news_date /\ news_date < end_date

\* what the body of the for loop does with one article
CMDecisionNoDenylist(item) ==
    IF ~InDateWindow(item.date) THEN "skip_date"
    ELSE IF item.status # 200 THEN "skip_status"
    ELSE "append"

CMDecisionNoStatusCheck(item) ==
    LET url == NormalizeUrl(item.url)
    IN  IF Denylisted(url) THEN "skip_denylist"
        ELSE IF ~InDateWindow(item.date) THEN "skip_date"
        ELSE "append"

CMDecision(item) ==
    LET url == NormalizeUrl(item.url)
    IN  IF Denylisted(url) THEN "skip_denylist"
        ELSE IF ~InDateWindow(item.date) THEN "skip_date"
        ELSE IF item.status # 200 THEN "skip_status"
        ELSE "append"

\* html_string in ["\r\n", ""]
EmptyListingCrLfOnly(html_string) == html_string \in {"\r\n"}

EmptyListing(html_string) == html_string \in {"\r\n", ""}

\* one turn of while True up to the for loop
CMFetch ==
    /\ variant = "cm"
    /\ pc = "fetch"
    /\ Len(fetched) < MaxPages \/ Pinned(CMPosition(index))
    /\ \E resp \in CMResponses(CMPosition(index)) :
        /\ r' = resp
        /\ pc' = IF EmptyListing(resp.text) THEN "done" ELSE "items"
    /\ fetched' = Append(fetched, index)
    /\ idx' = 0
    /\ UNCHANGED <<heap, instances, actor, first_run>>
    /\ UNCHANGED <<variant, start_date, end_date, source, found_news,
                   page_number, index, stop_entire_search, full_stop,
                   detail_fetched, last, seen_older, batch, result, f_calls>>

\* url[0] of an empty url raises IndexError, which nothing in search catches
ArticleRaises(item) == Len(item.url) = 0

\* one iteration of: for article in tree.xpath("//article")
CMArticle ==
    /\ variant = "cm"
    /\ pc = "items"
    /\ idx < r.n
    /\ \E item \in CMItemAt(CMPosition(index), idx + 1) :
        IF ArticleRaises(item)
        THEN /\ idx' = idx + 1
             /\ last' = [decision |-> "raise", url |-> << >>, date |-> 0]
             /\ pc' = "raised"
             /\ UNCHANGED <<detail_fetched, found_news>>
        ELSE
        LET url == NormalizeUrl(item.url)
            d == CMDecision(item)
        IN  /\ idx' = idx + 1
            /\ pc' = pc
            /\ last' = [decision |-> d, url |-> url, date |-> item.date]
            /\ detail_fetched' = IF d \in {"skip_status", "append"}
                                 THEN detail_fetched \cup {url}
                                 ELSE detail_fetched
            /\ found_news' = IF d = "append"
                             THEN Append(found_news,
                                         [url |-> url, date |-> item.date])
                             ELSE found_news
    /\ UNCHANGED <<heap, instances, actor, first_run>>
    /\ UNCHANGED <<variant, start_date, end_date, source, page_number, index,
                   stop_entire_search, full_stop, r, fetched, seen_older,
                   batch, result, f_calls>>

\* after the for loop: if full_stop: break, else index += 6
CMAfterArticles ==
    /\ variant = "cm"
    /\ pc = "items"
    /\ idx = r.n
    /\ IF full_stop
       THEN pc' = "done" /\ index' = index
       ELSE pc' = "fetch" /\ index' = index + CMStep
    /\ UNCHANGED <<heap, instances, actor, first_run>>
    /\ UNCHANGED <<variant, start_date, end_date, source, found_news,
                   page_number, stop_entire_search, full_stop, r, idx,
                   fetched, detail_fetched, last, seen_older, batch, result,
                   f_calls>>

\* found_news after the for loop's body ran on each of items in turn
RECURSIVE CMAppended(_, _)
CMAppended(items, found) ==
    IF items = << >> THEN found
    ELSE LET item == Head(items)
         IN  IF ArticleRaises(item) THEN found
             ELSE CMAppended(Tail(items),
                     IF CMDecision(item) = "append"
                     THEN Append(found, [url |-> NormalizeUrl(item.url),
                                         date |-> item.date])
                     ELSE found)

----------------------------------------------------------------------------
(* PublicoURLSearch.add_news *)

\* add_news calls of one run
MaxCalls == 3

\* PublicoNews.build_from_url: the record scraped from the article's page
BuildFromUrl(url, date) == [url |-> url, date |-> date]

\* one call of add_news(url); the result of validate_url is not used
UrlAddNews ==
    /\ variant = "url"
    /\ pc = "calls"
    /\ idx < MaxCalls
    /\ \E url \in PublicoUrls \cup {PuboA}, date \in Dates :
        LET news_object == BuildFromUrl(url, date)
        IN  /\ last' = [decision |-> "add", url |-> url, date |-> date]
            /\ detail_fetched' = detail_fetched \cup {url}
            /\ found_news' = IF ~InFoundNews(news_object, found_news)
                             THEN Append(found_news, news_object)
                             ELSE found_news
    /\ idx' = idx + 1
    /\ UNCHANGED <<heap, instances, actor, first_run>>
    /\ UNCHANGED <<variant, start_date, end_date, source, page_number, index,
                   stop_entire_search, full_stop, pc, r, fetched, seen_older,
                   batch, result, f_calls>>

----------------------------------------------------------------------------
(* validate_urls *)

\* len(data) > 50
MaxUrls == 50

\* the longest "url" list of a request
MaxBatch == 52

NoResult == [error |-> "none", indices |-> << >>]

Batch(n, bad) ==
    [i \in 1..n |-> IF i \in bad THEN PuboA
                    ELSE IF i % 2 = 0 THEN PublicoB ELSE PublicoA]

BadSets(n) ==
    {{}} \cup {{i} : i \in 1..n} \cup {{1, i} : i \in {j \in {n} : j >= 2}}

Batches == UNION {{Batch(n, bad) : bad \in BadSets(n)} : n \in 0..MaxBatch}

\* if len(data) > 50
TooManyFrom50(data) == Len(data) >= MaxUrls

TooMany(data) == Len(data) > MaxUrls

\* [i for i, value in enumerate(valid_url) if not value]
InvalidUrlsIndexFirstOnly(data) ==
    LET all == SelectSeq([i \in 1..Len(data) |-> i - 1],
                         LAMBDA i : ~ValidateUrl(data[i + 1]))
    IN  IF all = << >> THEN << >> ELSE <<all[1]>>

InvalidUrlsIndex(data) ==
    SelectSeq([i \in 1..Len(data) |-> i - 1],
              LAMBDA i : ~ValidateUrl(data[i + 1]))

\* decorated(*args, **kwargs)
ValidateUrlsDecorated ==
    /\ variant = "validate_urls"
    /\ pc = "request"
    /\ IF TooMany(batch)
       THEN /\ result' = [error |-> "too_many", indices |-> << >>]
            /\ pc' = "raised"
            /\ f_calls' = f_calls
       ELSE IF Len(InvalidUrlsIndex(batch)) # 0
       THEN /\ result' = [error |-> "invalid_urls",
                          indices |-> InvalidUrlsIndex(batch)]
            /\ pc' = "raised"
            /\ f_calls' = f_calls
       ELSE /\ result' = NoResult
            /\ pc' = "returned"
            /\ f_calls' = f_calls + 1
    /\ UNCHANGED <<heap, instances, actor, first_run>>
    /\ UNCHANGED <<variant, start_date, end_date, source, found_news,
                   page_number, index, stop_entire_search, full_stop, r, idx,
                   fetched, detail_fetched, last, seen_older, batch>>

----------------------------------------------------------------------------
(* validate_dates *)

\* if months_diff > 3
MaxMonths == 3

\* months the request dates are drawn from
MaxMonth == 6

\* a request date is written month * 100 + day, the months numbered on
\* across years; 0 is a text datetime_from_string cannot parse
RequestDates == {m * 100 + d : m \in 1..MaxMonth, d \in {1, 15, 28}} \cup {0}

\* number_of_months_between_2_dates: the calendar months from start to end
NumberOfMonthsBetween2Dates(start, end) == (end \div 100) - (start \div 100)

\* decorated(*args, **kwargs)
ValidateDatesDecorated ==
    /\ variant = "validate_dates"
    /\ pc = "request"
    /\ IF start_date = 0 \/ end_date = 0
       THEN /\ result' = [error |-> "invalid_format", indices |-> << >>]
            /\ pc' = "raised"
            /\ f_calls' = f_calls
       ELSE LET months_diff == NumberOfMonthsBetween2Dates(start_date, end_date)
            IN  IF months_diff < 0
                THEN /\ result' = [error |-> "start_after_end",
                                   indices |-> << >>]
                     /\ pc' = "raised"
                     /\ f_calls' = f_calls
                ELSE IF months_diff > MaxMonths
                THEN /\ result' = [error |-> "range_too_big",
                                   indices |-> << >>]
                     /\ pc' = "raised"
                     /\ f_calls' = f_calls
                ELSE /\ result' = NoResult
                     /\ pc' = "returned"
                     /\ f_calls' = f_calls + 1
    /\ UNCHANGED <<heap, instances, actor, first_run>>
    /\ UNCHANGED <<variant, start_date, end_date, source, found_news,
                   page_number, index, stop_entire_search, full_stop, r, idx,
                   fetched, detail_fetched, last, seen_older, batch>>

----------------------------------------------------------------------------
(* Construction *)

\* PublicoSearch.__init__ / CMSearch.__init__ and the locals of the methods
\* consume_api was called once at most
NoRun == [found_news |-> << >>, page_number |-> 0, fetches |-> 0]

InitLocals ==
    /\ first_run = NoRun
    /\ found_news = << >>
    /\ page_number = 1
    /\ index = 0
    /\ stop_entire_search = FALSE
    /\ full_stop = FALSE
    /\ r = NoResponse
    /\ idx = 0
    /\ fetched = << >>
    /\ detail_fetched = {}
    /\ last = NoItem
    /\ seen_older = FALSE
    /\ result = NoResult
    /\ f_calls = 0

\* one session: no other instance exists
InitCommon ==
    /\ InitLocals
    /\ heap = << >>
    /\ instances = << >>
    /\ actor = 0

\* PublicoAPISearch.__init__
InitPublicoAPI ==
    /\ variant \in {"topic", "keywords"}
    /\ start_date \in StartDates
    /\ end_date \in EndDates
    /\ source = << >>
    /\ batch = << >>
    /\ pc = "fetch"
    /\ InitCommon

\* CMTopicSearch.__init__
InitCM ==
    /\ variant = "cm"
    /\ start_date \in StartDates
    /\ end_date \in EndDates
    /\ source = << >>
    /\ batch = << >>
    /\ pc = "fetch"
    /\ InitCommon

\* PublicoURLSearch.__init__: no date range
InitUrl ==
    /\ variant = "url"
    /\ start_date = 0
    /\ end_date = 0
    /\ source = << >>
    /\ batch = << >>
    /\ pc = "calls"
    /\ InitCommon

\* a request reaches the decorated view
InitValidateUrls ==
    /\ variant = "validate_urls"
    /\ start_date = 0
    /\ end_date = 0
    /\ source = << >>
    /\ batch \in Batches
    /\ pc = "request"
    /\ InitCommon

\* a request reaches the view decorated with validate_dates
InitValidateDates ==
    /\ variant = "validate_dates"
    /\ start_date \in RequestDates
    /\ end_date \in RequestDates
    /\ source = << >>
    /\ batch = << >>
    /\ pc = "request"
    /\ InitCommon

Init ==
    InitPublicoAPI \/ InitCM \/ InitUrl \/ InitValidateUrls
        \/ InitValidateDates

Next ==
    \/ TopicFetch
    \/ TopicItem
    \/ TopicAfterItems
    \/ KeywordsFetch
    \/ KeywordsItem
    \/ KeywordsAfterItems
    \/ CMFetch
    \/ CMArticle
    \/ CMAfterArticles
    \/ UrlAddNews
    \/ ValidateUrlsDecorated
    \/ ValidateDatesDecorated

Spec == Init /\ [][Next]_vars

----------------------------------------------------------------------------
(* The scenario "topic search, 2 pages then empty" on the scraped source *)

\* a plain article dated inside the range of the scraped source; its detail
\* page is served
ScenarioInRange ==
    {it \in CMItems : /\ it.url \in ArticleUrls
                      /\ start_date < it.date /\ it.date < end_date
                      /\ it.status = 200}

ScenarioDenylisted == {it \in CMItems : it.url \in MarkedUrls /\ it.status = 200}

\* 3 items, 2 in range and 1 denylisted, in any order
ScenarioPage1 ==
    {p \in [1..3 -> ScenarioInRange \cup ScenarioDenylisted] :
        /\ Cardinality({i \in 1..3 : p[i] \in ScenarioInRange}) = 2
        /\ Cardinality({i \in 1..3 : p[i] \in ScenarioDenylisted}) = 1}

\* 1 item in range
ScenarioPage2 == {<<it>> : it \in ScenarioInRange}

ScenarioSources ==
    {<<[text |-> "html", items |-> p1],
       [text |-> "html", items |-> p2],
       [text |-> e, items |-> << >>]>> :
        p1 \in ScenarioPage1, p2 \in ScenarioPage2, e \in {"", "\r\n"}}

InitScenario ==
    /\ variant = "cm"
    /\ start_date \in StartDates
    /\ end_date \in EndDates
    /\ source \in ScenarioSources
    /\ batch = << >>
    /\ pc = "fetch"
    /\ InitCommon

NextCM == CMFetch \/ CMArticle \/ CMAfterArticles

SpecScenario == InitScenario /\ [][NextCM]_vars

----------------------------------------------------------------------------
(* Properties *)

NoDuplicateUrls(list) ==
    \A i, j \in 1..Len(list) : list[i].url = list[j].url => i = j

\* C1: in PublicoTopicSearch.consume_api, once an item dated before
\* start_date has been read no listing fetch is issued and page_number is
\* not advanced, and found_news never holds a record dated before start_date.
C1_EarlyStop ==
    /\ [](variant = "topic" =>
            \A i \in 1..Len(found_news) : found_news[i].date >= start_date)
    /\ [][(variant = "topic" /\ seen_older) =>
            (fetched' = fetched /\ page_number' = page_number)]_vars

\* a run stopped by an older item after a record was accepted, with listing
\* fetches still allowed
C1_Witness ==
    /\ variant = "topic"
    /\ seen_older
    /\ last.decision = "stop"
    /\ pc = "done"
    /\ Len(found_news) > 0
    /\ Len(fetched) < MaxPages

\* C2: every record PublicoTopicSearch.consume_api holds in found_news is
\* dated inside [start_date, end_date], both ends included.
C2_TopicDateRange ==
    variant = "topic" =>
        \A i \in 1..Len(found_news) :
            start_date <= found_news[i].date /\ found_news[i].date <= end_date

\* records dated exactly start_date and exactly end_date were accepted
C2_Witness ==
    /\ variant = "topic"
    /\ start_date < end_date
    /\ \E i \in 1..Len(found_news) : found_news[i].date = start_date
    /\ \E i \in 1..Len(found_news) : found_news[i].date = end_date

\* C3: in the Publico variants found_news never holds two records with the
\* same URL; after PublicoURLSearch.add_news(url) exactly one record has that
\* URL, and an add_news for a URL already held leaves found_news unchanged.
C3_DedupIdempotent ==
    /\ [](variant \in {"url", "topic", "keywords"} =>
            NoDuplicateUrls(found_news))
    /\ [](variant = "url" /\ last.decision = "add" =>
            Cardinality({i \in 1..Len(found_news) :
                            found_news[i].url = last.url}) = 1)
    /\ [][(/\ variant \in {"url", "topic", "keywords"}
           /\ idx' = idx + 1
           /\ last'.decision = "add"
           /\ \E i \in 1..Len(found_news) : found_news[i].url = last'.url)
          => found_news' = found_news]_vars

\* the API listed an article already held, and found_news still holds it once
C3_Witness ==
    /\ variant = "keywords"
    /\ last.decision = "add"
    /\ Len(fetched) = 2
    /\ Len(found_news) = 1
    /\ found_news[1].url = last.url
    /\ found_news[1].date # last.date

\* C4 as claimed: CMTopicSearch.search never leaves two records with the same
\* normalized URL in found_news.
C4_NoDuplicateCM == variant = "cm" => NoDuplicateUrls(found_news)

\* C5: CMTopicSearch.search never holds a record, and never requests a detail
\* page, for a URL whose normalized form contains "interativa", "multimedia"
\* or "perguntas".
C5_DenylistExclusion ==
    variant = "cm" =>
        /\ \A i \in 1..Len(found_news) :
              \A k \in 1..Len(found_news[i].url) :
                  found_news[i].url[k] \notin
                      {"interativa", "multimedia", "perguntas"}
        /\ \A u \in detail_fetched :
              \A k \in 1..Len(u) :
                  u[k] \notin {"interativa", "multimedia", "perguntas"}

\* a multimedia item dated inside the range was skipped after a record was
\* accepted
C5_Witness ==
    /\ variant = "cm"
    /\ last.decision = "skip_denylist"
    /\ \E k \in 1..Len(last.url) : last.url[k] = "multimedia"
    /\ start_date < last.date /\ last.date < end_date
    /\ Len(found_news) > 0

\* C6 as claimed: every record PublicoKeywordsSearch.consume_api holds in
\* found_news is dated inside [start_date, end_date].
C6_KeywordsDateRange ==
    variant = "keywords" =>
        \A i \in 1..Len(found_news) :
            start_date <= found_news[i].date /\ found_news[i].date <= end_date

\* C7: every record CMTopicSearch.search holds in found_news is dated
\* strictly between start_date and end_date.
C7_StrictWindow ==
    variant = "cm" =>
        \A i \in 1..Len(found_news) :
            start_date < found_news[i].date /\ found_news[i].date < end_date

\* an article dated exactly start_date was skipped after a record was accepted
C7_Witness ==
    /\ variant = "cm"
    /\ last.decision = "skip_date"
    /\ last.date = start_date
    /\ Len(found_news) > 0

\* C8: a listing fetch that returns the empty page ("" for the scraped
\* source, "[]" for the API) ends the run without advancing the cursor or
\* changing found_news, and a run that ended fetches and changes nothing.
C8_EmptyPageTerminal ==
    /\ [][(/\ variant \in {"cm", "topic", "keywords"}
           /\ fetched' # fetched
           /\ r'.text = IF variant = "cm" THEN "" ELSE "[]")
          => (/\ pc' = "done"
              /\ page_number' = page_number
              /\ index' = index
              /\ found_news' = found_news)]_vars
    /\ [][pc = "done" =>
            UNCHANGED <<fetched, page_number, index, found_news>>]_vars

\* the scraped source answered the second listing fetch with the empty string
C8_Witness ==
    /\ variant = "cm"
    /\ pc = "done"
    /\ r.text = ""
    /\ Len(fetched) = 2
    /\ index = CMStep
    /\ Len(found_news) > 0

\* C9 as claimed: the scenario ends with 3 records and the cursor advanced
\* 3 times.
C9_ThreeAdvances ==
    pc = "done" => Len(found_news) = 3 /\ index = 3 * CMStep

\* C9 amended: the scenario ends on the third listing fetch, the empty page,
\* with 3 records and the cursor advanced twice.
C9_TwoAdvances ==
    /\ pc = "done" =>
        /\ Len(found_news) = 3
        /\ index = 2 * CMStep
        /\ fetched = <<0, CMStep, 2 * CMStep>>
        /\ r.text \in {"", "\r\n"}
    /\ pc # "done" => ENABLED NextCM

\* the scenario ended
C9_Witness ==
    /\ variant = "cm"
    /\ pc = "done"
    /\ Len(source) = 3
    /\ Len(found_news) = 3
    /\ Len(fetched) = 3

\* C10: validate_urls raises the batch size RequestError for every batch of
\* more than 50 URLs without calling the wrapped operation, and for no batch
\* of at most 50.
C10_BatchCap ==
    (variant = "validate_urls" /\ pc # "request") =>
        /\ Len(batch) > 50 =>
              pc = "raised" /\ result.error = "too_many" /\ f_calls = 0
        /\ Len(batch) <= 50 => result.error # "too_many"

\* a batch of 51 valid URLs was rejected
C10_Witness ==
    /\ variant = "validate_urls"
    /\ Len(batch) = 51
    /\ \A i \in 1..Len(batch) : batch[i] \in PublicoUrls
    /\ pc = "raised"
    /\ result.error = "too_many"
    /\ f_calls = 0

\* C11: for a batch of at most 50 URLs, validate_urls raises the RequestError
\* that lists exactly the positions (counted from 0, in order) of the URLs
\* that are not Publico article URLs, without calling the wrapped operation,
\* when there is such a URL; otherwise it calls the wrapped operation once.
C11_InvalidUrls ==
    (variant = "validate_urls" /\ pc # "request" /\ Len(batch) <= 50) =>
        LET bad == {i \in 1..Len(batch) : batch[i] \notin PublicoUrls}
        IN  /\ bad # {} =>
                /\ pc = "raised"
                /\ result.error = "invalid_urls"
                /\ f_calls = 0
                /\ Len(result.indices) = Cardinality(bad)
                /\ \A i \in bad : \E k \in 1..Len(result.indices) :
                      result.indices[k] = i - 1
                /\ \A k \in 1..Len(result.indices) - 1 :
                      result.indices[k] < result.indices[k + 1]
            /\ bad = {} => pc = "returned" /\ f_calls = 1

\* a batch whose first and last URLs are invalid was rejected with both
\* positions, the valid URLs between them unfetched
C11_Witness ==
    /\ variant = "validate_urls"
    /\ Len(batch) = 50
    /\ batch[1] = PuboA /\ batch[50] = PuboA /\ batch[2] \in PublicoUrls
    /\ pc = "raised"
    /\ result = [error |-> "invalid_urls", indices |-> <<0, 49>>]
    /\ f_calls = 0

\* C12 as claimed: validate_dates rejects, before the wrapped operation runs,
\* every request whose end date is before its start date and every request
\* whose range exceeds 3 calendar months, and passes every other request on.
C12_DateRangeChecked ==
    (variant = "validate_dates" /\ pc # "request"
        /\ start_date # 0 /\ end_date # 0) =>
        LET reversed == end_date < start_date
            too_long == (end_date \div 100) - (start_date \div 100) > 3
        IN  /\ (reversed \/ too_long) => pc = "raised" /\ f_calls = 0
            /\ ~(reversed \/ too_long) => pc = "returned" /\ f_calls = 1

\* C14 as claimed: in no search variant does one item abort the page or the
\* session; the loop never ends by an exception raised on an item.
C14_ParseFailureSkipped ==
    variant \in {"topic", "keywords", "cm"} => pc # "raised"

----------------------------------------------------------------------------
(* A source that lists a finite sequence of items *)

\* items the source lists in all
MaxListed == 3

\* the pages that list items, size to a page, and the empty page after them
Paged(items, size, text, empty) ==
    LET pages == (Len(items) + size - 1) \div size
    IN  [k \in 1..(pages + 1) |->
            IF k <= pages
            THEN [text |-> text,
                  items |-> SubSeq(items, (k - 1) * size + 1,
                                   IF k * size < Len(items)
                                   THEN k * size ELSE Len(items))]
            ELSE [text |-> empty, items |-> << >>]]

\* the items of all pages in the order they are listed
RECURSIVE Flatten(_)
Flatten(pages) ==
    IF pages = << >> THEN << >>
    ELSE Head(pages).items \o Flatten(Tail(pages))

\* articles inside and outside the window, denylisted, with a detail page
\* that fails, and with an empty data-name
ListedArticles ==
    [url : {RelA, RelB}, date : {3}, status : {200, 404}]
        \cup {[url |-> RelA, date |-> 2, status |-> 200],
              [url |-> <<"/", "multimedia", "/", "m">>, date |-> 3,
               status |-> 200],
              MalformedArticle}

ListedSequences(S) == UNION {[1..n -> S] : n \in 0..MaxListed}

InitCMListed ==
    /\ variant = "cm"
    /\ start_date \in StartDates
    /\ end_date \in EndDates
    /\ \E items \in ListedSequences(ListedArticles), empty \in {"", "\r\n"} :
          source = Paged(items, MaxItems, "html", empty)
    /\ batch = << >>
    /\ pc = "fetch"
    /\ InitCommon

SpecCMListed == InitCMListed /\ [][NextCM]_vars

\* the listed items but those whose detail page does not answer 200
WithoutFailedDetail(items) == SelectSeq(items, LAMBDA it : it.status = 200)

\* C13: the step that meets a non-200 detail page leaves found_news as it is
\* and stays in the for loop; a run that returns has fetched every page; and
\* when search ends found_news is what search makes of the listing without
\* the items whose detail page failed.
C13_FailedDetailSkipped ==
    /\ [][(idx' = idx + 1 /\ last'.decision = "skip_status")
            => (pc' = "items" /\ found_news' = found_news)]_vars
    /\ [](pc = "done" => Len(fetched) = Len(source))
    /\ [](pc \in {"done", "raised"} =>
            found_news = CMAppended(WithoutFailedDetail(Flatten(source)), << >>))

\* a detail page failed for the first article of a page, the article after it
\* and one on the next page were appended, and search returned
C13_Witness ==
    /\ variant = "cm"
    /\ pc = "done"
    /\ Len(source) = 3
    /\ Len(source[1].items) = 2
    /\ source[1].items[1].status = 404
    /\ InDateWindow(source[1].items[1].date)
    /\ ~Denylisted(NormalizeUrl(source[1].items[1].url))
    /\ Len(found_news) = 2
    /\ found_news[1].url = NormalizeUrl(source[1].items[2].url)
    /\ found_news[2].url = NormalizeUrl(source[2].items[1].url)

----------------------------------------------------------------------------
(* A source that lists one article, of any URL *)

\* parts of a listed URL after its leading "/"
MaxUrlLen == 3

UrlParts == {"pais", "/", "?ref", "multimedia", "=x"}

\* origin-relative and absolute listing URLs
ListedUrls ==
    {prefix \o rest :
        prefix \in {<<"/">>, Origin \o <<"/">>},
        rest \in UNION {[1..n -> UrlParts] : n \in 0..MaxUrlLen}}

InitCMOneArticle ==
    /\ variant = "cm"
    /\ start_date = 2
    /\ end_date = 4
    /\ \E url \in ListedUrls, status \in {200, 404} :
          source = <<[text |-> "html",
                      items |-> <<[url |-> url, date |-> 3,
                                   status |-> status]>>],
                     [text |-> "", items |-> << >>]>>
    /\ batch = << >>
    /\ pc = "fetch"
    /\ InitCommon

SpecCMOneArticle == InitCMOneArticle /\ [][NextCM]_vars

\* C15: once the listed article is evaluated, the URL search works with is
\* the listed URL, prefixed with the origin when it starts with "/", cut
\* before its first "?ref"; the denylist decision is the one for that URL, an
\* appended record stores it, and normalizing it again gives it back.
C15_Normalization ==
    (variant = "cm" /\ last.decision # "none") =>
        LET raw == source[1].items[1].url
            full == IF raw[1] = "/"
                    THEN <<"https:", "/", "/", "www.cmjornal.pt">> \o raw
                    ELSE raw
            url == last.url
        IN  /\ \A i \in 1..Len(url) : url[i] # "?ref"
            /\ \E k \in 0..Len(full) :
                  /\ url = SubSeq(full, 1, k)
                  /\ k = Len(full) \/ full[k + 1] = "?ref"
            /\ (raw[1] # "/" /\ \A i \in 1..Len(raw) : raw[i] # "?ref")
                  => url = raw
            /\ last.decision = "skip_denylist"
                  <=> \E i \in 1..Len(url) :
                         url[i] \in {"interativa", "multimedia", "perguntas"}
            /\ last.decision = "append"
                  => found_news = <<[url |-> url, date |-> 3]>>
            /\ last.decision # "append" => found_news = << >>
            /\ NormalizeUrl(url) = url

\* a relative URL with a marker after its tracking suffix was appended under
\* the absolute URL without the suffix
C15_Witness ==
    /\ variant = "cm"
    /\ pc = "done"
    /\ source[1].items[1].url = <<"/", "pais", "?ref", "multimedia">>
    /\ last.decision = "append"
    /\ found_news =
          <<[url |-> <<"https:", "/", "/", "www.cmjornal.pt", "/", "pais">>,
             date |-> 3]>>

\* C16 as claimed: in CMTopicSearch.search full_stop is never set, every
\* article evaluated is appended or skipped, and the loop is only left on a
\* listing fetch that returned the empty page.
C16_NeverStops ==
    variant = "cm" =>
        /\ full_stop = FALSE
        /\ last.decision \in {"none", "append", "skip_denylist", "skip_date",
                              "skip_status"}
        /\ pc \in {"fetch", "items"} \/ (pc = "done" /\ r.text \in {"", "\r\n"})

----------------------------------------------------------------------------
(* Two search instances, their steps interleaved *)

Instances == 1..2

\* listing fetches of one instance
MaxSessionFetches == 2

\* items of one page
MaxSessionItems == 1

\* the variables of the single session
locals == <<variant, start_date, end_date, source, found_news, page_number,
            index, stop_entire_search, full_stop, pc, r, idx, fetched,
            detail_fetched, last, seen_older, batch, result, f_calls,
            first_run>>

\* self._found_news = []: the address of a list nothing else refers to
NewListShared(h) == 1

NewList(h) == Len(h) + 1

\* an instance before __init__ ran; found_news is an address in heap
NewInstance(kind) ==
    [kind |-> kind, found_news |-> 0, page_number |-> 0, index |-> 0,
     pc |-> "new", r |-> NoResponse, idx |-> 0, fetches |-> 0, solo |-> << >>]

SessionResponses(kind) ==
    IF kind = "keywords"
    THEN {[text |-> "[]", n |-> 0]}
            \cup [text : {"array"}, n : 0..MaxSessionItems]
    ELSE {[text |-> "", n |-> 0]}
            \cup [text : {"html"}, n : 0..MaxSessionItems]

SessionItems(kind) ==
    IF kind = "keywords"
    THEN [url : PublicoUrls, data : {3}, wellformed : {TRUE}]
    ELSE [url : {RelA}, date : {3}, status : {200, 404}]

\* what the body of the for loop makes of the list for one item
ItemEffect(kind, list, item) ==
    IF kind = "keywords" THEN AddNews(list, item)
    ELSE IF CMDecision(item) = "append"
    THEN Append(list, [url |-> NormalizeUrl(item.url), date |-> item.date])
    ELSE list

\* PublicoSearch.__init__ / CMSearch.__init__, then the subclass's __init__
Construct(i) ==
    /\ variant = "sessions"
    /\ instances[i].pc = "new"
    /\ LET a == NewList(heap)
       IN  /\ heap' = IF a > Len(heap) THEN Append(heap, << >>) ELSE heap
           /\ instances' =
                [instances EXCEPT ![i] =
                    [@ EXCEPT !.found_news = a,
                              !.page_number =
                                  IF instances[i].kind = "keywords"
                                  THEN 1 ELSE 0,
                              !.pc = "fetch"]]
    /\ actor' = i
    /\ UNCHANGED locals

\* the listing fetch of consume_api / search
SessionFetch(i) ==
    LET s == instances[i]
    IN  /\ variant = "sessions"
        /\ s.pc = "fetch"
        /\ s.fetches < MaxSessionFetches
        /\ \E resp \in SessionResponses(s.kind) :
              instances' =
                [instances EXCEPT ![i] =
                    [s EXCEPT !.r = resp, !.idx = 0, !.fetches = @ + 1,
                              !.pc = IF resp.text = "[]"
                                        \/ (s.kind = "cm"
                                            /\ EmptyListing(resp.text))
                                     THEN "done" ELSE "items"]]
        /\ actor' = i
        /\ UNCHANGED <<heap, locals>>

\* one iteration of the for loop
SessionItem(i) ==
    LET s == instances[i]
    IN  /\ variant = "sessions"
        /\ s.pc = "items"
        /\ s.idx < s.r.n
        /\ \E item \in SessionItems(s.kind) :
              /\ heap' = [heap EXCEPT ![s.found_news] =
                                          ItemEffect(s.kind, @, item)]
              /\ instances' =
                    [instances EXCEPT ![i] =
                        [s EXCEPT !.idx = @ + 1,
                                  !.solo = ItemEffect(s.kind, @, item)]]
        /\ actor' = i
        /\ UNCHANGED locals

\* after the for loop: the cursor advances
SessionAfter(i) ==
    LET s == instances[i]
    IN  /\ variant = "sessions"
        /\ s.pc = "items"
        /\ s.idx = s.r.n
        /\ instances' =
              [instances EXCEPT ![i] =
                  [s EXCEPT !.pc = "fetch",
                            !.page_number =
                                IF s.kind = "keywords" THEN @ + 1 ELSE @,
                            !.index = IF s.kind = "cm" THEN @ + CMStep ELSE @]]
        /\ actor' = i
        /\ UNCHANGED <<heap, locals>>

InitSessions ==
    /\ variant = "sessions"
    /\ start_date = 2
    /\ end_date = 4
    /\ source = << >>
    /\ batch = << >>
    /\ pc = "idle"
    /\ InitLocals
    /\ heap = << >>
    /\ instances \in [Instances -> {NewInstance(k) : k \in {"keywords", "cm"}}]
    /\ actor = 0

NextSessions ==
    \E i \in Instances :
        Construct(i) \/ SessionFetch(i) \/ SessionItem(i) \/ SessionAfter(i)

SpecSessions == InitSessions /\ [][NextSessions]_vars

\* C17: a step of one instance leaves the other instance's attributes, locals
\* and found_news list as they were, and the found_news of each instance is
\* at every moment the list the instance would have built alone.
C17_NoSharedState ==
    /\ [][\A i \in Instances, j \in Instances :
            (i # j /\ actor' = i) =>
                /\ instances'[j] = instances[j]
                /\ instances[j].pc # "new" =>
                      heap'[instances[j].found_news]
                          = heap[instances[j].found_news]]_vars
    /\ [](\A i \in Instances :
            instances[i].pc # "new" =>
                heap[instances[i].found_news] = instances[i].solo)

\* both instances are inside a page, each has added to its own list, and the
\* two lists differ
C17_Witness ==
    /\ variant = "sessions"
    /\ \A i \in Instances : instances[i].pc = "items" /\ instances[i].idx = 1
    /\ instances[1].found_news # instances[2].found_news
    /\ heap[instances[1].found_news] # << >>
    /\ heap[instances[2].found_news] # << >>
    /\ heap[instances[1].found_news] # heap[instances[2].found_news]
    /\ actor = 2

\* C18: the first listing fetch of a session uses cursor 0 (CM) or 1 (Publico
\* API), each later fetch the cursor of the one before plus 6 (CM) or plus 1
\* (Publico), no cursor is fetched twice, and a fetch after the first happens
\* only when the for loop has consumed every item of the page before.
C18_CursorDiscipline ==
    /\ [](variant \in {"topic", "keywords", "cm"} =>
            /\ fetched # << >> =>
                  fetched[1] = IF variant = "cm" THEN 0 ELSE 1
            /\ \A k \in 1..(Len(fetched) - 1) :
                  fetched[k + 1] = fetched[k]
                                     + IF variant = "cm" THEN 6 ELSE 1
            /\ \A j \in 1..Len(fetched), k \in 1..Len(fetched) :
                  j # k => fetched[j] # fetched[k])
    /\ [][(variant \in {"topic", "keywords", "cm"} /\ fetched' # fetched)
            => (/\ Len(fetched') = Len(fetched) + 1
                /\ fetched = << >> \/ idx = r.n)]_vars

\* the topic search fetched page 2 after it added an item of page 1
C18_Witness ==
    /\ variant = "topic"
    /\ fetched = <<1, 2>>
    /\ found_news # << >>
    /\ pc = "items"
    /\ idx = 0
    /\ r.n = 2

----------------------------------------------------------------------------
(* The Publico API lists a finite sequence of items *)

\* items dated before, at, inside and after the range, and one the
\* deserializer makes no news of
ListedPublicoItems ==
    [url : PublicoUrls, data : {1, 2, 3, 5}, wellformed : {TRUE}]
        \cup {[url |-> PublicoA, data |-> 3, wellformed |-> FALSE]}

InitTopicListed ==
    /\ variant = "topic"
    /\ start_date \in StartDates
    /\ end_date \in EndDates
    /\ \E items \in ListedSequences(ListedPublicoItems),
          size \in {MaxItems, MaxListed} :
          source = Paged(items, size, "array", "[]")
    /\ batch = << >>
    /\ pc = "fetch"
    /\ InitCommon

NextTopic == TopicFetch \/ TopicItem \/ TopicAfterItems

SpecTopicListed == InitTopicListed /\ [][NextTopic]_vars

\* C19: the for loop takes the items of a page one by one in page order;
\* once an item dated before start_date was read, no item is evaluated and
\* nothing is added or fetched any more; and a step never removes or
\* reorders what found_news holds.
C19_StopCutsPage ==
    /\ [][(variant = "topic" /\ idx' # idx /\ fetched' = fetched) =>
            /\ idx' = idx + 1
            /\ last'.url = source[page_number].items[idx'].url
            /\ last'.date = source[page_number].items[idx'].data]_vars
    /\ [][(variant = "topic" /\ seen_older) =>
            /\ idx' = idx
            /\ last' = last
            /\ found_news' = found_news
            /\ fetched' = fetched]_vars
    /\ [][variant = "topic" =>
            /\ Len(found_news') >= Len(found_news)
            /\ \A k \in 1..Len(found_news) : found_news'[k] = found_news[k]]_vars

\* the first item of a page was added, the second signalled the stop, and
\* consume_api returned without evaluating the third, which is in range and
\* of another URL
C19_Witness ==
    /\ variant = "topic"
    /\ pc = "done"
    /\ Len(source[1].items) = 3
    /\ source[1].items[2].data < start_date
    /\ source[1].items[3].wellformed
    /\ start_date <= source[1].items[3].data
    /\ source[1].items[3].data <= end_date
    /\ source[1].items[3].url # source[1].items[1].url
    /\ idx = 2
    /\ found_news = <<[url |-> source[1].items[1].url,
                       date |-> source[1].items[1].data]>>

\* the listing is in descending date order
Descending(items) ==
    \A i \in 1..Len(items), j \in 1..Len(items) :
        i < j => items[i].data >= items[j].data

\* the records of items, one for each URL, the first listed kept
RECURSIVE FirstByUrl(_, _)
FirstByUrl(items, kept) ==
    IF items = << >> THEN kept
    ELSE LET it == Head(items)
         IN  FirstByUrl(Tail(items),
                 IF \E k \in 1..Len(kept) : kept[k].url = it.url
                 THEN kept
                 ELSE Append(kept, [url |-> it.url, date |-> it.data]))

\* C20: when the API lists its items in descending date order and each of
\* them deserializes, consume_api cannot get stuck before it returns, and
\* when it has returned found_news holds exactly the listed items dated from
\* start_date to end_date, one for each URL, the first listed kept, in the
\* order listed.
C20_EarlyStopComplete ==
    LET listed == Flatten(source)
    IN  (/\ variant = "topic"
         /\ Descending(listed)
         /\ \A i \in 1..Len(listed) : listed[i].wellformed) =>
            /\ pc # "done" => ENABLED NextTopic
            /\ pc = "done" =>
                  found_news =
                      FirstByUrl(SelectSeq(listed,
                                     LAMBDA it : /\ start_date <= it.data
                                                 /\ it.data <= end_date),
                                 << >>)

\* page 1 listed an item newer than end_date and then one dated end_date,
\* page 2 an older one: the second item alone was added and the search
\* stopped on the third
C20_Witness ==
    /\ variant = "topic"
    /\ pc = "done"
    /\ stop_entire_search
    /\ Len(source) = 3
    /\ Len(source[1].items) = 2
    /\ Descending(Flatten(source))
    /\ source[1].items[1].data > end_date
    /\ source[1].items[2].data = end_date
    /\ source[1].items[2].wellformed
    /\ source[2].items[1].data < start_date
    /\ fetched = <<1, 2>>
    /\ found_news = <<[url |-> source[1].items[2].url, date |-> end_date]>>

----------------------------------------------------------------------------
(* A source that returns the empty page at a cursor the session reaches *)

\* pages of 0 to MaxItems items whose text is not the empty page
ListingPages(S, text) ==
    {[text |-> text, items |-> s] :
        s \in UNION {[1..n -> S] : n \in 0..MaxItems}}

\* up to MaxPages such pages, then the empty page
EndingSources(S, text, empties) ==
    {pages \o <<[text |-> e, items |-> << >>]>> :
        pages \in UNION {[1..n -> ListingPages(S, text)] : n \in 0..MaxPages},
        e \in empties}

InitEnding ==
    /\ start_date = 2
    /\ end_date = 4
    /\ \/ /\ variant \in {"topic", "keywords"}
          /\ source \in EndingSources(
                 {[url |-> PublicoA, data |-> 1, wellformed |-> TRUE],
                  [url |-> PublicoB, data |-> 3, wellformed |-> TRUE]},
                 "array", {"[]"})
       \/ /\ variant = "cm"
          /\ source \in EndingSources(
                 {[url |-> RelA, date |-> 3, status |-> 200],
                  MalformedArticle},
                 "html", {"", "\r\n"})
    /\ batch = << >>
    /\ pc = "fetch"
    /\ InitCommon

NextSearch == NextTopic \/ NextCM
                \/ KeywordsFetch \/ KeywordsItem \/ KeywordsAfterItems

\* a running method goes on to its next statement
SpecEnding == InitEnding /\ [][NextSearch]_vars /\ WF_vars(NextSearch)

\* C21: against a source that returns the empty page at a cursor the session
\* reaches, every run of search / consume_api comes to its end (it returns,
\* or in search an exception leaves it); a fetch that returns text other
\* than the empty page with no item in it does not end the run, and the
\* cursor advances past it to the next fetch.
C21_Termination ==
    /\ <>(pc \in {"done", "raised"})
    /\ [][(fetched' # fetched /\ r'.n = 0
             /\ r'.text \notin {"[]", "", "\r\n"}) => pc' = "items"]_vars
    /\ [][(pc = "items" /\ r.n = 0 /\ ~stop_entire_search) =>
            /\ pc' = "fetch"
            /\ found_news' = found_news
            /\ IF variant = "cm" THEN index' = index + 6
               ELSE page_number' = page_number + 1]_vars

\* the keywords search went past a page without items, added from the page
\* after it and returned on the empty page
C21_Witness ==
    /\ variant = "keywords"
    /\ Len(source) = 3
    /\ source[1] = [text |-> "array", items |-> << >>]
    /\ Len(source[2].items) > 0
    /\ fetched = <<1, 2, 3>>
    /\ found_news # << >>
    /\ pc = "done"

----------------------------------------------------------------------------
(* consume_api called again on the instance it returned from *)

\* the caller calls consume_api a second time: the locals start afresh, the
\* attributes of the instance are as the first call left them
ConsumeApiAgainFromPage1 ==
    /\ variant \in {"topic", "keywords"}
    /\ pc = "done"
    /\ first_run = NoRun
    /\ first_run' = [found_news |-> found_news, page_number |-> page_number,
                     fetches |-> Len(fetched)]
    /\ stop_entire_search' = FALSE
    /\ seen_older' = FALSE
    /\ page_number' = 1
    /\ pc' = "fetch"
    /\ UNCHANGED <<heap, instances, actor>>
    /\ UNCHANGED <<variant, start_date, end_date, source, found_news, index,
                   full_stop, r, idx, fetched, detail_fetched, last, batch,
                   result, f_calls>>

ConsumeApiAgain ==
    /\ variant \in {"topic", "keywords"}
    /\ pc = "done"
    /\ first_run = NoRun
    /\ first_run' = [found_news |-> found_news, page_number |-> page_number,
                     fetches |-> Len(fetched)]
    /\ stop_entire_search' = FALSE
    /\ seen_older' = FALSE
    /\ page_number' = page_number
    /\ pc' = "fetch"
    /\ UNCHANGED <<heap, instances, actor>>
    /\ UNCHANGED <<variant, start_date, end_date, source, found_news, index,
                   full_stop, r, idx, fetched, detail_fetched, last, batch,
                   result, f_calls>>

InitRerun ==
    /\ variant \in {"topic", "keywords"}
    /\ start_date = 2
    /\ end_date = 4
    /\ \E items \in ListedSequences(
                       [url : PublicoUrls, data : {1, 3, 5},
                        wellformed : {TRUE}]
                           \cup {[url |-> PublicoA, data |-> 3,
                                  wellformed |-> FALSE]}),
          size \in {MaxItems, MaxListed} :
          source = Paged(items, size, "array", "[]")
    /\ batch = << >>
    /\ pc = "fetch"
    /\ InitCommon

NextRerun == NextTopic \/ KeywordsFetch \/ KeywordsItem \/ KeywordsAfterItems
                \/ ConsumeApiAgain

SpecRerun == InitRerun /\ [][NextRerun]_vars

\* C22: a second call of consume_api keeps the page_number the first call
\* ended with, its first fetch asks for that page, it cannot get stuck, and
\* from its start to its end found_news is the list the first call ended
\* with.
C22_RerunIdempotent ==
    /\ [][(first_run = NoRun /\ first_run' # NoRun) =>
            page_number' = page_number]_vars
    /\ [](first_run # NoRun =>
            /\ found_news = first_run.found_news
            /\ page_number >= first_run.page_number
            /\ Len(fetched) > first_run.fetches =>
                  fetched[first_run.fetches + 1] = first_run.page_number
            /\ pc # "done" => ENABLED NextRerun)

\* the topic search had stopped inside page 1 after adding its first item;
\* called again it fetched page 1 again, met the same item and stopped again
C22_Witness ==
    /\ variant = "topic"
    /\ first_run.page_number = 1
    /\ first_run.found_news # << >>
    /\ pc = "done"
    /\ stop_entire_search
    /\ fetched = <<1, 1>>
    /\ idx = 2
    /\ source[1].items[1].data = 3
    /\ source[1].items[1].wellformed
    /\ found_news = <<[url |-> source[1].items[1].url, date |-> 3]>>

====
